---- MODULE Spec2Model ----
(***************************************************************************)
(* TF-IDF retrieval engine of SciAssist-Electrolyte:                       *)
(*   PurePythonRetriever        (src/src/retrieval/electrolyte_retriever.py)*)
(*   PurePythonRetrievalManager (src/src/retrieval/retrieval_manager.py)    *)
(***************************************************************************)
EXTENDS Integers, Sequences, FiniteSets, TLC

(***************************************************************************)
(* Bounds of the model.                                                    *)
(***************************************************************************)
\* longest corpus of freely chosen texts handed to a build
MaxDocs == 2
\* longest corpus uploaded through the page
MaxUploadedDocs == 3
\* longest corpus handed to the retriever without going through the manager
MaxDirectDocs == 1
\* largest top_k handed to a search
MaxTopK == 2
\* Python floats are IEEE-754 binary64 (53 significant bits, every operation
\* rounded to nearest, ties to even).  The model keeps the same arithmetic
\* with a significand of Precision bits.
Precision == 8

(***************************************************************************)
(* Floating point.  A float is <<m, e>> with value m * 2^e; zero is        *)
(* <<0, 0>> and every other float is normalised,                           *)
(* 2^(Precision-1) <= |m| < 2^Precision, so equal values are equal tuples. *)
(***************************************************************************)
Abs(x) == IF x < 0 THEN -x ELSE x

RECURSIVE BitLen(_)
BitLen(a) == IF a = 0 THEN 0 ELSE 1 + BitLen(a \div 2)

Zero == <<0, 0>>

\* the float nearest to m * 2^e, ties to even
Round(m, e) ==
    IF m = 0 THEN Zero
    ELSE LET s == IF m > 0 THEN 1 ELSE -1
             a == Abs(m)
             n == BitLen(a)
         IN  IF n <= Precision
             THEN <<s * a * 2^(Precision - n), e - (Precision - n)>>
             ELSE LET k    == n - Precision
                      q    == a \div 2^k
                      r    == a % 2^k
                      half == 2^(k - 1)
                      q2   == IF r > half \/ (r = half /\ q % 2 = 1)
                              THEN q + 1 ELSE q
                  IN  IF q2 = 2^Precision
                      THEN <<s * 2^(Precision - 1), e + k + 1>>
                      ELSE <<s * q2, e + k>>

FromInt(n) == Round(n, 0)

One == FromInt(1)

FNeg(a) == <<-a[1], a[2]>>

FMul(a, b) == Round(a[1] * b[1], a[2] + b[2])

FAdd(a, b) ==
    IF a = Zero THEN b
    ELSE IF b = Zero THEN a
    ELSE LET hi == IF a[2] >= b[2] THEN a ELSE b
             lo == IF a[2] >= b[2] THEN b ELSE a
             d  == hi[2] - lo[2]
         IN  IF d >= Precision + 2 THEN hi
             ELSE Round(hi[1] * 2^d + lo[1], lo[2])

\* a / b for b # 0; the lowest bit of the quotient is a sticky bit
FDiv(a, b) ==
    IF a = Zero THEN Zero
    ELSE LET s == IF (a[1] > 0) = (b[1] > 0) THEN 1 ELSE -1
             n == Abs(a[1]) * 2^(Precision + 2)
             q == n \div Abs(b[1])
             t == IF n % Abs(b[1]) = 0 THEN 0 ELSE 1
         IN  Round(s * (2 * q + t), a[2] - b[2] - Precision - 3)

RECURSIVE ISqrtIn(_, _, _)
ISqrtIn(n, lo, hi) ==
    IF lo >= hi THEN lo
    ELSE LET mid == (lo + hi + 1) \div 2
         IN  IF mid * mid <= n THEN ISqrtIn(n, mid, hi)
                               ELSE ISqrtIn(n, lo, mid - 1)

\* floor of the square root of a natural number
ISqrt(n) == ISqrtIn(n, 0, 2^((BitLen(n) + 1) \div 2))

\* math.sqrt, for a >= 0 (correctly rounded)
FSqrt(a) ==
    IF a = Zero THEN Zero
    ELSE LET s  == IF (a[2] - (Precision + 2)) % 2 = 0
                   THEN Precision + 2 ELSE Precision + 3
             mm == a[1] * 2^s
             r  == ISqrt(mm)
             t  == IF r * r = mm THEN 0 ELSE 1
         IN  Round(2 * r + t, ((a[2] - s) \div 2) - 1)

Sign(a) == IF a[1] > 0 THEN 1 ELSE IF a[1] < 0 THEN -1 ELSE 0

\* a < b
FLess(a, b) ==
    IF Sign(a) # Sign(b) THEN Sign(a) < Sign(b)
    ELSE IF Sign(a) = 0 THEN FALSE
    ELSE IF Sign(a) > 0
         THEN a[2] < b[2] \/ (a[2] = b[2] /\ a[1] < b[1])
         ELSE a[2] > b[2] \/ (a[2] = b[2] /\ a[1] < b[1])

\* a >= b
FGeq(a, b) == ~FLess(a, b)

\* fixed-point scale of the logarithm series
LogScale == 2^14

RECURSIVE AtanhSeries(_, _, _)
\* sum of t/k + t*z2/(k+2) + ... in fixed point, until the terms vanish
AtanhSeries(t, z2, k) ==
    IF t = 0 THEN 0
    ELSE (t \div k) + AtanhSeries((t * z2) \div LogScale, z2, k + 2)

\* math.log for 2^(-Precision) <= x < 2^Precision:
\* ln x = 2 atanh((x - 1) / (x + 1)); ln 1 is exactly 0
Log(x) ==
    LET u   == 2^(-x[2])
        num == x[1] - u
        den == x[1] + u
        zf  == (Abs(num) * LogScale) \div den
        z2  == (zf * zf) \div LogScale
        sum == AtanhSeries(zf, z2, 1)
    IN  Round((IF num < 0 THEN -1 ELSE 1) * sum, -13)

(***************************************************************************)
(* Text.  A character is a one-character string.  A text is the sequence   *)
(* of its whitespace-separated words and a word is its sequence of         *)
(* characters: lower() and the re.sub of preprocess_text neither add nor   *)
(* remove whitespace, so they act on each word and split() then drops the  *)
(* words that became empty.                                                *)
(***************************************************************************)
\* str.lower on one character
LowerChar(c) ==
    CASE c = "C" -> "c"
      [] c = "E" -> "e"
      [] c = "L" -> "l"
      [] OTHER   -> c

\* characters matched by [^\w\s.,;:!?] (removed by preprocess_text)
SpecialChars == {"+", "|"}

\* str.lower on one word
LowerWord(w) == [i \in 1..Len(w) |-> LowerChar(w[i])]

\* PurePythonRetriever.preprocess_text
preprocess_text(text) ==
    LET lowered  == [i \in 1..Len(text) |-> LowerWord(text[i])]
        stripped == [i \in 1..Len(text) |->
                        SelectSeq(lowered[i], LAMBDA c : c \notin SpecialChars)]
    IN  SelectSeq(stripped, LAMBDA w : w # <<>>)

ToSet(seq) == {seq[i] : i \in 1..Len(seq)}

\* words used by the corpora and queries of the model
w_conductivity == <<"c","o","n","d","u","c","t","i","v","i","t","y">>
w_Conductivity == <<"C","o","n","d","u","c","t","i","v","i","t","y">>
w_salt == <<"s","a","l","t">>
w_LiPlus == <<"L","i","+">>
w_bars == <<"|","|">>
w_EC == <<"E","C">>
w_a == <<"a">>
w_b == <<"b">>
w_alpha == <<"a","l","p","h","a">>
w_beta == <<"b","e","t","a">>
w_gamma == <<"g","a","m","m","a">>
w_zzz == <<"z","z","z">>

\* PurePythonRetriever.domain_terms (abridged to three of its entries)
domain_terms == <<w_conductivity, w_salt, w_EC>>

(***************************************************************************)
(* Documents are dicts: functions whose domain is a subset of              *)
(* {"content", "metadata"}.  A record without "content" cannot be          *)
(* processed (doc['content'] raises KeyError).                             *)
(***************************************************************************)
HasContent(doc) == "content" \in DOMAIN doc

\* every doc['content'] of the loop of build_vocabulary succeeds
Processable(docs) == \A i \in 1..Len(docs) : HasContent(docs[i])

\* build_vocabulary that adds the domain terms as they are written
build_vocabulary_terms_as_written(docs) ==
    UNION {ToSet(preprocess_text(docs[i].content)) : i \in 1..Len(docs)}
        \cup {domain_terms[j] : j \in 1..Len(domain_terms)}

\* PurePythonRetriever.build_vocabulary: the value assigned to self.vocab
build_vocabulary(docs) ==
    UNION {ToSet(preprocess_text(docs[i].content)) : i \in 1..Len(docs)}
        \cup {LowerWord(domain_terms[j]) : j \in 1..Len(domain_terms)}

\* Counter(words)[word]
Count(words, word) == Cardinality({i \in 1..Len(words) : words[i] = word})

\* compute_tf that divides by the number of vocabulary tokens of the input
compute_tf_over_vocabulary_tokens(words, vocabulary) ==
    IF Len(words) = 0 THEN <<>>
    ELSE [word \in {w \in ToSet(words) : w \in vocabulary} |->
            FDiv(FromInt(Count(words, word)),
                 FromInt(Cardinality({i \in 1..Len(words) :
                                        words[i] \in vocabulary})))]

\* PurePythonRetriever.compute_tf
compute_tf(words, vocabulary) ==
    IF Len(words) = 0 THEN <<>>
    ELSE [word \in {w \in ToSet(words) : w \in vocabulary} |->
            FDiv(FromInt(Count(words, word)), FromInt(Len(words)))]

\* doc_freq[word] of compute_idf; words[i] is the set of words of document i
doc_freq(words, vocabulary, word) ==
    Cardinality({i \in DOMAIN words : word \in words[i] /\ word \in vocabulary})

\* compute_idf without the 1 + in the denominator
compute_idf_unsmoothed(docs, vocabulary) ==
    LET words == [i \in 1..Len(docs) |-> ToSet(preprocess_text(docs[i].content))]
        seen  == {w \in UNION {words[i] : i \in 1..Len(docs)} : w \in vocabulary}
    IN  [word \in seen |->
            Log(FDiv(FromInt(Len(docs)),
                     FromInt(doc_freq(words, vocabulary, word))))]

\* compute_idf that counts every occurrence of a word, not every document
compute_idf_counts_occurrences(docs, vocabulary) ==
    LET words == [i \in 1..Len(docs) |-> preprocess_text(docs[i].content)]
        seen  == {w \in UNION {ToSet(words[i]) : i \in 1..Len(docs)} :
                    w \in vocabulary}
    IN  [word \in seen |->
            Log(FDiv(FromInt(Len(docs)),
                     FromInt(1 + Cardinality(UNION {
                                {<<i, j>> : j \in {k \in 1..Len(words[i]) :
                                                    words[i][k] = word}} :
                                i \in 1..Len(docs)}))))]

\* PurePythonRetriever.compute_idf: the value assigned to self.idf
compute_idf(docs, vocabulary) ==
    LET words == [i \in 1..Len(docs) |-> ToSet(preprocess_text(docs[i].content))]
        seen  == {w \in UNION {words[i] : i \in 1..Len(docs)} : w \in vocabulary}
    IN  [word \in seen |->
            Log(FDiv(FromInt(Len(docs)),
                     FromInt(1 + doc_freq(words, vocabulary, word))))]

\* the vector built from a term-frequency map (build_tfidf_vectors, search)
tfidf_vector(tf, idf_table) ==
    [word \in {w \in DOMAIN tf : w \in DOMAIN idf_table} |->
        FMul(tf[word], idf_table[word])]

\* PurePythonRetriever.build_tfidf_vectors: the value of self.doc_vectors
build_tfidf_vectors(docs, vocabulary, idf_table) ==
    [i \in 1..Len(docs) |->
        tfidf_vector(compute_tf(preprocess_text(docs[i].content), vocabulary),
                     idf_table)]

\* vec.get(word, 0)
Get(vec, word) == IF word \in DOMAIN vec THEN vec[word] ELSE Zero

RECURSIVE SumLoop(_, _, _, _)
\* the loop of cosine_similarity: <<dot_product, norm1, norm2>> after
\* visiting the words of the set in its iteration order
SumLoop(words, vec1, vec2, acc) ==
    IF words = {} THEN acc
    ELSE LET word == CHOOSE w \in words : TRUE
             v1   == Get(vec1, word)
             v2   == Get(vec2, word)
         IN  SumLoop(words \ {word}, vec1, vec2,
                     <<FAdd(acc[1], FMul(v1, v2)),
                       FAdd(acc[2], FMul(v1, v1)),
                       FAdd(acc[3], FMul(v2, v2))>>)

\* cosine_similarity that takes two vectors as identical when one is all zero
cosine_similarity_zero_is_one(vec1, vec2) ==
    LET acc == SumLoop(DOMAIN vec1 \cup DOMAIN vec2, vec1, vec2,
                       <<Zero, Zero, Zero>>)
    IN  IF acc[2] = Zero \/ acc[3] = Zero THEN One
        ELSE FDiv(acc[1], FMul(FSqrt(acc[2]), FSqrt(acc[3])))

\* cosine_similarity that divides by the squared norms
cosine_similarity_squared_norms(vec1, vec2) ==
    LET acc == SumLoop(DOMAIN vec1 \cup DOMAIN vec2, vec1, vec2,
                       <<Zero, Zero, Zero>>)
    IN  IF acc[2] = Zero \/ acc[3] = Zero THEN Zero
        ELSE FDiv(acc[1], FMul(acc[2], acc[3]))

\* PurePythonRetriever.cosine_similarity
cosine_similarity(vec1, vec2) ==
    LET acc == SumLoop(DOMAIN vec1 \cup DOMAIN vec2, vec1, vec2,
                       <<Zero, Zero, Zero>>)
    IN  IF acc[2] = Zero \/ acc[3] = Zero THEN Zero
        ELSE FDiv(acc[1], FMul(FSqrt(acc[2]), FSqrt(acc[3])))

(***************************************************************************)
(* State.                                                                  *)
(***************************************************************************)
VARIABLES
    documents,      \* PurePythonRetriever.documents
    vocab,          \* PurePythonRetriever.vocab
    idf,            \* PurePythonRetriever.idf
    doc_vectors,    \* PurePythonRetriever.doc_vectors
    is_trained,     \* PurePythonRetriever.is_trained
    is_ready,       \* PurePythonRetrievalManager.is_ready
    call,           \* the call being observed: its name and arguments (for
                    \* a build, also the value of vocab when it was made)
    error,          \* the exception it raised, or NoError
    results,        \* the list returned by search
    stats,          \* the dict returned by get_statistics
    built,          \* history: the corpus of the last build_knowledge_base
                    \* that returned normally, <<>> if there was none
    building,       \* the build_knowledge_base that another thread is
                    \* executing: its argument and the statement it is at
    knowledge_base_ready    \* st.session_state.knowledge_base_ready

retriever == <<documents, vocab, idf, doc_vectors, is_trained>>

vars == <<documents, vocab, idf, doc_vectors, is_trained, is_ready,
          call, error, results, stats, built, building,
          knowledge_base_ready>>

NoError == "none"
\* ValueError raised by build_knowledge_base on an empty list
EmptyCorpusError == "ValueError: empty document list"
\* ValueError raised by PurePythonRetriever.search when not trained
NotTrainedError == "ValueError: retriever not trained"
\* ValueError raised by PurePythonRetrievalManager.search when not ready
NotReadyError == "ValueError: manager not ready"
KeyError == "KeyError"
IndexError == "IndexError"

\* search(min_score=0.1)
DefaultMinScore == FDiv(FromInt(1), FromInt(10))

NoStats == <<>>

Idle == [op |-> "idle"]

\* no build is being executed by another thread
NoBuild == [pc |-> "none"]

Init ==
    /\ documents = <<>>
    /\ vocab = {}
    /\ doc_vectors = <<>>
    /\ idf = <<>>
    /\ is_trained = FALSE
    /\ is_ready = FALSE
    /\ call = Idle
    /\ error = NoError
    /\ results = <<>>
    /\ stats = NoStats
    /\ built = <<>>
    /\ building = NoBuild
    /\ knowledge_base_ready = FALSE

(***************************************************************************)
(* PurePythonRetriever.build_knowledge_base                                *)
(***************************************************************************)
\* build_knowledge_base with self.documents assigned before the emptiness test
build_knowledge_base_assigns_first(docs) ==
    IF docs = <<>>
    THEN /\ error' = EmptyCorpusError
         /\ documents' = docs
         /\ UNCHANGED <<vocab, idf, doc_vectors, is_trained, built>>
    ELSE IF ~Processable(docs)
    THEN /\ error' = KeyError
         /\ documents' = docs
         /\ UNCHANGED <<vocab, idf, doc_vectors, is_trained, built>>
    ELSE /\ error' = NoError
         /\ documents' = docs
         /\ vocab' = build_vocabulary(docs)
         /\ idf' = compute_idf(docs, vocab')
         /\ doc_vectors' = build_tfidf_vectors(docs, vocab', idf')
         /\ is_trained' = TRUE
         /\ built' = docs

\* build_knowledge_base with self.is_trained set before the vocabulary is built
build_knowledge_base_trained_early(docs) ==
    IF docs = <<>>
    THEN /\ error' = EmptyCorpusError
         /\ UNCHANGED <<retriever, built>>
    ELSE IF ~Processable(docs)
    THEN /\ error' = KeyError
         /\ documents' = docs
         /\ is_trained' = TRUE
         /\ UNCHANGED <<vocab, idf, doc_vectors, built>>
    ELSE /\ error' = NoError
         /\ documents' = docs
         /\ vocab' = build_vocabulary(docs)
         /\ idf' = compute_idf(docs, vocab')
         /\ doc_vectors' = build_tfidf_vectors(docs, vocab', idf')
         /\ is_trained' = TRUE
         /\ built' = docs

\* build_knowledge_base that adds the new tokens to the vocabulary it has
build_knowledge_base_incremental(docs) ==
    IF docs = <<>>
    THEN /\ error' = EmptyCorpusError
         /\ UNCHANGED <<retriever, built>>
    ELSE IF ~Processable(docs)
    THEN /\ error' = KeyError
         /\ documents' = docs
         /\ UNCHANGED <<vocab, idf, doc_vectors, is_trained, built>>
    ELSE /\ error' = NoError
         /\ documents' = docs
         /\ vocab' = vocab \cup build_vocabulary(docs)
         /\ idf' = compute_idf(docs, vocab')
         /\ doc_vectors' = build_tfidf_vectors(docs, vocab', idf')
         /\ is_trained' = TRUE
         /\ built' = docs

\* the assignments of build_knowledge_base and the exception that ends it
build_knowledge_base(docs) ==
    IF docs = <<>>
    THEN /\ error' = EmptyCorpusError
         /\ UNCHANGED <<retriever, built>>
    ELSE IF ~Processable(docs)
    THEN \* self.documents is assigned, then build_vocabulary raises
         \* KeyError before it assigns self.vocab
         /\ error' = KeyError
         /\ documents' = docs
         /\ UNCHANGED <<vocab, idf, doc_vectors, is_trained, built>>
    ELSE /\ error' = NoError
         /\ documents' = docs
         /\ vocab' = build_vocabulary(docs)
         /\ idf' = compute_idf(docs, vocab')
         /\ doc_vectors' = build_tfidf_vectors(docs, vocab', idf')
         /\ is_trained' = TRUE
         /\ built' = docs

(***************************************************************************)
(* PurePythonRetriever.search                                              *)
(***************************************************************************)
\* the test with > in place of >=
qualifies_strictly(similarity, min_score) == FLess(min_score, similarity)

\* if similarity >= min_score
qualifies(similarity, min_score) == FGeq(similarity, min_score)

\* the list `similarities` before it is sorted: <<position, similarity>>
\* of every stored vector whose similarity is >= min_score
similarities(query, min_score) ==
    LET query_words  == preprocess_text(query)
        query_tf     == compute_tf(query_words, vocab)
        query_vector == tfidf_vector(query_tf, idf)
        all == [i \in 1..Len(doc_vectors) |->
                   <<i, cosine_similarity(query_vector, doc_vectors[i])>>]
    IN  SelectSeq(all, LAMBDA p : qualifies(p[2], min_score))

\* a step that puts x in front of the elements equal to it, as a sort
\* that is not stable would
InsertBeforeEquals(sorted, x) ==
    LET n == Cardinality({j \in 1..Len(sorted) : FLess(x[2], sorted[j][2])})
    IN  SubSeq(sorted, 1, n) \o <<x>> \o SubSeq(sorted, n + 1, Len(sorted))

\* one step of a stable sort, largest similarity first: x goes behind the
\* elements that are >= x
InsertDescending(sorted, x) ==
    LET n == Cardinality({j \in 1..Len(sorted) : FGeq(sorted[j][2], x[2])})
    IN  SubSeq(sorted, 1, n) \o <<x>> \o SubSeq(sorted, n + 1, Len(sorted))

RECURSIVE SortFrom(_, _, _)
SortFrom(seq, i, sorted) ==
    IF i > Len(seq) THEN sorted
    ELSE SortFrom(seq, i + 1, InsertDescending(sorted, seq[i]))

\* similarities.sort(key=lambda x: x[1], reverse=True)
sort_reverse(seq) == SortFrom(seq, 1, <<>>)

Min(a, b) == IF a <= b THEN a ELSE b

\* a slice that keeps one entry more than asked for
Slice_one_more(seq, top_k) == SubSeq(seq, 1, Min(top_k + 1, Len(seq)))

\* similarities[:top_k]
Slice(seq, top_k) == SubSeq(seq, 1, Min(top_k, Len(seq)))

\* the exception raised by the body of the result loop for one entry
entry_error(p) ==
    IF p[1] > Len(documents) THEN IndexError
    ELSE IF ~HasContent(documents[p[1]]) THEN KeyError
    ELSE IF "metadata" \notin DOMAIN documents[p[1]] THEN KeyError
    ELSE NoError

\* the exception that ends the result loop, NoError if it completes
loop_error(top) ==
    IF \A j \in 1..Len(top) : entry_error(top[j]) = NoError THEN NoError
    ELSE entry_error(top[CHOOSE j \in 1..Len(top) :
                        /\ entry_error(top[j]) # NoError
                        /\ \A k \in 1..(j - 1) : entry_error(top[k]) = NoError])

\* the dict appended to results for one entry
result_of(p) ==
    [content    |-> documents[p[1]].content,
     similarity |-> p[2],
     metadata   |-> documents[p[1]].metadata]

\* search that adds the words of the query to the vocabulary
search_grows_vocab(query, top_k, min_score) ==
    /\ vocab' = vocab \cup ToSet(preprocess_text(query))
    /\ UNCHANGED <<documents, idf, doc_vectors, is_trained, built>>
    /\ IF ~is_trained
       THEN /\ error' = NotTrainedError
            /\ results' = <<>>
       ELSE LET top == Slice(sort_reverse(similarities(query, min_score)), top_k)
            IN  /\ error' = loop_error(top)
                /\ results' = IF error' = NoError
                              THEN [j \in 1..Len(top) |-> result_of(top[j])]
                              ELSE <<>>

\* PurePythonRetriever.search: the exception it raises or the list it returns
search(query, top_k, min_score) ==
    /\ UNCHANGED <<retriever, built>>
    /\ IF ~is_trained
       THEN /\ error' = NotTrainedError
            /\ results' = <<>>
       ELSE LET top == Slice(sort_reverse(similarities(query, min_score)), top_k)
            IN  /\ error' = loop_error(top)
                /\ results' = IF error' = NoError
                              THEN [j \in 1..Len(top) |-> result_of(top[j])]
                              ELSE <<>>

(***************************************************************************)
(* PurePythonRetrievalManager                                              *)
(***************************************************************************)
\* build_from_documents that sets is_ready before it builds
build_from_documents_ready_first(docs) ==
    IF docs # <<>>
    THEN /\ build_knowledge_base(docs)
         /\ is_ready' = TRUE
    ELSE /\ error' = NoError
         /\ UNCHANGED <<retriever, built, is_ready>>

\* PurePythonRetrievalManager.build_from_documents
build_from_documents(docs) ==
    IF docs # <<>>
    THEN /\ build_knowledge_base(docs)
         /\ is_ready' = IF error' = NoError THEN TRUE ELSE is_ready
    ELSE \* logs a warning and returns
         /\ error' = NoError
         /\ UNCHANGED <<retriever, built, is_ready>>

\* PurePythonRetrievalManager.search that passes no threshold on
manager_search_without_threshold(query, top_k) ==
    IF ~is_ready
    THEN /\ error' = NotReadyError
         /\ results' = <<>>
         /\ UNCHANGED <<retriever, built>>
    ELSE search(query, top_k, FNeg(One))

\* PurePythonRetrievalManager.search
manager_search(query, top_k) ==
    IF ~is_ready
    THEN /\ error' = NotReadyError
         /\ results' = <<>>
         /\ UNCHANGED <<retriever, built>>
    ELSE search(query, top_k, DefaultMinScore)

get_statistics ==
    /\ error' = NoError
    /\ stats' = IF ~is_ready
                THEN [status |-> "not_ready"]
                ELSE [status          |-> "ready",
                      document_count  |-> Len(documents),
                      vocabulary_size |-> Cardinality(vocab)]

(***************************************************************************)
(* The callers' inputs.                                                    *)
(***************************************************************************)
\* "Conductivity conductivity conductivity conductivity conductivity Li+"
text_A == <<w_Conductivity, w_conductivity, w_conductivity, w_conductivity,
            w_conductivity, w_LiPlus>>
\* "conductivity || a"
text_B == <<w_conductivity, w_bars, w_a>>
\* "a b"
text_C == <<w_a, w_b>>

Texts == {text_A, text_B, text_C}

\* the documents of a corpus of texts; the metadata tells the documents of
\* one corpus apart
Docs(texts) == [i \in 1..Len(texts) |-> [content |-> texts[i], metadata |-> i]]

\* "alpha beta gamma", the content of the one document of the probe corpus
text_probe == <<w_alpha, w_beta, w_gamma>>

ProbeCorpus == Docs(<<text_probe>>)

\* "alpha beta gamma" followed by words that no document has
text_probe_padded == text_probe \o [i \in 1..28 |-> w_zzz]

\* the corpora that hold every text once, in every order
AllTextsCorpora ==
    {Docs(t) : t \in {u \in [1..Cardinality(Texts) -> Texts] :
                          \A i, j \in DOMAIN u : u[i] = u[j] => i = j}}

GoodCorpora ==
    {Docs(t) : t \in UNION {[1..n -> Texts] : n \in 1..MaxDocs}}
        \cup AllTextsCorpora

\* corpora with a record that has no 'content'
BadCorpora == {<<[metadata |-> 1]>>,
               <<[content |-> text_C, metadata |-> 1], [metadata |-> 2]>>}

Corpora == {<<>>} \cup GoodCorpora \cup BadCorpora

\* the corpora handed to build_knowledge_base directly
DirectCorpora ==
    {<<>>} \cup {docs \in GoodCorpora : Len(docs) <= MaxDirectDocs}
           \cup BadCorpora \cup {ProbeCorpus}

\* "conductivity salt salt salt salt EC EC": domain terms only
text_terms == <<w_conductivity, w_salt, w_salt, w_salt, w_salt, w_EC, w_EC>>

Queries == {<<>>, <<w_conductivity>>, <<w_a, w_b>>, <<w_EC>>,
            text_probe, text_probe_padded, text_terms}

TopKs == 1..MaxTopK

MinScores == {FNeg(DefaultMinScore), Zero, DefaultMinScore, One}

(***************************************************************************)
(* Actions: one call of a caller, from the idle state; Return drops the    *)
(* value the caller got.                                                   *)
(***************************************************************************)
RetrieverBuild ==
    /\ call = Idle
    /\ \E docs \in DirectCorpora :
        /\ call' = [op |-> "build_knowledge_base", docs |-> docs,
                    vocab_before |-> vocab]
        /\ build_knowledge_base(docs)
    /\ UNCHANGED <<is_ready, results, stats, building>>
    /\ UNCHANGED knowledge_base_ready

RetrieverSearch ==
    /\ call = Idle
    /\ \E query \in Queries, top_k \in TopKs, min_score \in MinScores :
        /\ call' = [op |-> "search", query |-> query, top_k |-> top_k,
                    min_score |-> min_score]
        /\ search(query, top_k, min_score)
    /\ UNCHANGED <<is_ready, stats, building>>
    /\ UNCHANGED knowledge_base_ready

ManagerBuild ==
    /\ call = Idle
    /\ \E docs \in Corpora :
        /\ call' = [op |-> "build_from_documents", docs |-> docs,
                    vocab_before |-> vocab]
        /\ build_from_documents(docs)
    /\ UNCHANGED <<results, stats, building>>
    /\ UNCHANGED knowledge_base_ready

ManagerSearch ==
    /\ call = Idle
    /\ \E query \in Queries, top_k \in TopKs :
        /\ call' = [op |-> "manager_search", query |-> query, top_k |-> top_k,
                    min_score |-> DefaultMinScore]
        /\ manager_search(query, top_k)
    /\ UNCHANGED <<is_ready, stats, building>>
    /\ UNCHANGED knowledge_base_ready

ManagerStats ==
    /\ call = Idle
    /\ call' = [op |-> "get_statistics"]
    /\ get_statistics
    /\ UNCHANGED <<retriever, built, is_ready, results, building>>
    /\ UNCHANGED knowledge_base_ready

\* self.documents = documents stores the caller's list itself, so the list
\* the index reads is the one the caller still holds.  The caller appends a
\* document to it, removes its last document or replaces its first one (the
\* first change it makes after a successful build).  The caller is one that
\* calls build_knowledge_base itself: app.py, the caller of the manager,
\* drops its list after build_from_documents.
CallerChangesList ==
    /\ call = Idle
    /\ built \in DirectCorpora \ {<<>>}
    /\ documents = built
    /\ \E kind \in {"append", "pop", "replace"} :
        /\ call' = [op |-> "caller_changes_list", kind |-> kind]
        /\ documents' =
            CASE kind = "append" ->
                    Append(documents,
                           [content |-> text_C, metadata |-> Len(documents) + 1])
              [] kind = "pop" -> SubSeq(documents, 1, Len(documents) - 1)
              [] kind = "replace" ->
                    [documents EXCEPT ![1].content =
                        IF @ = text_C THEN text_B ELSE text_C]
    /\ UNCHANGED <<vocab, idf, doc_vectors, is_trained, built, is_ready,
                   error, results, stats, building>>
    /\ UNCHANGED knowledge_base_ready

Return ==
    /\ call # Idle
    /\ call' = Idle
    /\ error' = NoError
    /\ results' = <<>>
    /\ stats' = NoStats
    /\ UNCHANGED <<retriever, built, is_ready, building>>
    /\ UNCHANGED knowledge_base_ready

Next ==
    \/ RetrieverBuild
    \/ RetrieverSearch
    \/ ManagerBuild
    \/ ManagerSearch
    \/ ManagerStats
    \/ CallerChangesList
    \/ Return

Spec == Init /\ [][Next]_vars

\* a caller that uses the manager only
NextManager ==
    \/ ManagerBuild
    \/ ManagerSearch
    \/ ManagerStats
    \/ Return

SpecManager == Init /\ [][NextManager]_vars

(***************************************************************************)
(* A rebuild executed by a second thread, one assignment to an attribute   *)
(* of self per step, while the first thread searches.  Nothing in          *)
(* build_knowledge_base or search takes a lock.  A step of the build is    *)
(* taken between two calls of the first thread.                            *)
(***************************************************************************)
\* the corpora of the rebuilds: two documents of different content
ConcurrentCorpora ==
    {docs \in GoodCorpora : Len(docs) = 2 /\ docs[1].content # docs[2].content}

\* the idf entries that the loop of compute_idf has still to write
idf_remaining == DOMAIN compute_idf(building.docs, vocab) \ DOMAIN idf

\* build_knowledge_base passes the emptiness test and assigns self.documents
BuildAssignsDocuments ==
    /\ call = Idle
    /\ building = NoBuild
    /\ \E docs \in ConcurrentCorpora :
        /\ building' = [pc |-> "build_vocabulary", docs |-> docs]
        /\ documents' = docs
    /\ UNCHANGED <<vocab, idf, doc_vectors, is_trained, is_ready,
                   call, error, results, stats, built>>
    /\ UNCHANGED knowledge_base_ready

\* build_vocabulary assigns self.vocab
BuildAssignsVocab ==
    /\ call = Idle
    /\ building.pc = "build_vocabulary"
    /\ vocab' = build_vocabulary(building.docs)
    /\ building' = [building EXCEPT !.pc = "compute_idf"]
    /\ UNCHANGED <<documents, idf, doc_vectors, is_trained, is_ready,
                   call, error, results, stats, built>>
    /\ UNCHANGED knowledge_base_ready

\* compute_idf: self.idf = {}
BuildResetsIdf ==
    /\ call = Idle
    /\ building.pc = "compute_idf"
    /\ idf' = <<>>
    /\ building' = [building EXCEPT !.pc = "idf_loop"]
    /\ UNCHANGED <<documents, vocab, doc_vectors, is_trained, is_ready,
                   call, error, results, stats, built>>
    /\ UNCHANGED knowledge_base_ready

\* compute_idf: self.idf[word] = math.log(doc_count / (1 + freq))
BuildWritesIdfEntry ==
    /\ call = Idle
    /\ building.pc = "idf_loop"
    /\ idf_remaining # {}
    /\ LET word == CHOOSE w \in idf_remaining : TRUE
       IN  idf' = [w \in DOMAIN idf \cup {word} |->
                    IF w = word
                    THEN compute_idf(building.docs, vocab)[word]
                    ELSE idf[w]]
    /\ UNCHANGED <<documents, vocab, doc_vectors, is_trained, is_ready,
                   call, error, results, stats, built, building,
          knowledge_base_ready>>
    /\ UNCHANGED knowledge_base_ready

\* build_tfidf_vectors: self.doc_vectors = []
BuildResetsVectors ==
    /\ call = Idle
    /\ building.pc = "idf_loop"
    /\ idf_remaining = {}
    /\ doc_vectors' = <<>>
    /\ building' = [building EXCEPT !.pc = "vectors_loop"]
    /\ UNCHANGED <<documents, vocab, idf, is_trained, is_ready,
                   call, error, results, stats, built>>
    /\ UNCHANGED knowledge_base_ready

\* build_tfidf_vectors: self.doc_vectors.append(vector)
BuildAppendsVector ==
    /\ call = Idle
    /\ building.pc = "vectors_loop"
    /\ Len(doc_vectors) < Len(building.docs)
    /\ doc_vectors' =
            Append(doc_vectors,
                   tfidf_vector(
                       compute_tf(preprocess_text(
                           building.docs[Len(doc_vectors) + 1].content), vocab),
                       idf))
    /\ UNCHANGED <<documents, vocab, idf, is_trained, is_ready,
                   call, error, results, stats, built, building,
          knowledge_base_ready>>
    /\ UNCHANGED knowledge_base_ready

\* build_knowledge_base: self.is_trained = True, and the build returns
BuildSetsTrained ==
    /\ call = Idle
    /\ building.pc = "vectors_loop"
    /\ Len(doc_vectors) = Len(building.docs)
    /\ is_trained' = TRUE
    /\ built' = building.docs
    /\ building' = NoBuild
    /\ UNCHANGED <<documents, vocab, idf, doc_vectors, is_ready,
                   call, error, results, stats>>
    /\ UNCHANGED knowledge_base_ready

NextConcurrent ==
    \/ BuildAssignsDocuments
    \/ BuildAssignsVocab
    \/ BuildResetsIdf
    \/ BuildWritesIdfEntry
    \/ BuildResetsVectors
    \/ BuildAppendsVector
    \/ BuildSetsTrained
    \/ RetrieverSearch
    \/ Return

SpecConcurrent == Init /\ [][NextConcurrent]_vars

(***************************************************************************)
(* The Streamlit application (app.py).  Every page run executes main(),    *)
(* which constructs a new ElectrolyteExpertApp and with it a new           *)
(* PurePythonRetrievalManager; st.session_state outlives the run.  A run   *)
(* renders the sidebar, then handles the button that caused it, if any.    *)
(***************************************************************************)
\* the dict get_statistics returns for a manager with the given attributes
statistics(ready, docs, vocabulary) ==
    IF ~ready
    THEN [status |-> "not_ready"]
    ELSE [status          |-> "ready",
          document_count  |-> Len(docs),
          vocabulary_size |-> Cardinality(vocabulary)]

\* the list load_example_data builds its knowledge base from
example_documents == Docs(<<text_A, text_B>>)

\* the lists process_uploaded_files can end up with: empty when no file
\* could be processed
UploadedCorpora ==
    {<<>>} \cup
    {Docs(t) : t \in UNION {[1..n -> Texts] : n \in 1..MaxUploadedDocs}}

\* what causes a page run: nothing but a re-run, or one of the buttons
AppEvents ==
    {[kind |-> "rerun"], [kind |-> "clear_all_data"],
     [kind |-> "load_example_data"]}
        \cup {[kind |-> "process_uploaded_files", docs |-> docs] :
                docs \in UploadedCorpora}
        \cup {[kind |-> "search", query |-> query, top_k |-> top_k] :
                query \in Queries \ {<<>>}, top_k \in TopKs}

\* one run of the script
ScriptRun ==
    \E event \in AppEvents :
        LET \* render_sidebar, on the manager __init__ has just made
            sidebar_stats  == statistics(FALSE, <<>>, {})
            sidebar_raises == /\ knowledge_base_ready
                              /\ "document_count" \notin DOMAIN sidebar_stats
            \* the list handed to build_from_documents in this run
            docs == IF sidebar_raises THEN <<>>
                    ELSE IF event.kind = "load_example_data"
                    THEN example_documents
                    ELSE IF event.kind = "process_uploaded_files"
                    THEN event.docs
                    ELSE <<>>
            \* render_retrieval_interface reaches retrieval_manager.search
            searches == /\ ~sidebar_raises
                        /\ event.kind = "search"
                        /\ knowledge_base_ready
        IN  /\ call' = [op |-> "script_run", event |-> event,
                        asked_statistics |-> knowledge_base_ready,
                        searched |-> searches]
            /\ stats' = IF knowledge_base_ready THEN sidebar_stats ELSE NoStats
            /\ error' = IF sidebar_raises THEN KeyError
                        ELSE IF searches /\ docs = <<>> THEN NotReadyError
                        ELSE NoError
            /\ results' = <<>>
            /\ documents' = docs
            /\ vocab' = IF docs = <<>> THEN {} ELSE build_vocabulary(docs)
            /\ idf' = IF docs = <<>> THEN <<>> ELSE compute_idf(docs, vocab')
            /\ doc_vectors' = IF docs = <<>> THEN <<>>
                              ELSE build_tfidf_vectors(docs, vocab', idf')
            /\ is_trained' = (docs # <<>>)
            /\ is_ready' = (docs # <<>>)
            /\ built' = docs
            /\ knowledge_base_ready' =
                    IF sidebar_raises THEN knowledge_base_ready
                    ELSE IF event.kind = "clear_all_data" THEN FALSE
                    ELSE IF docs # <<>> THEN TRUE
                    ELSE knowledge_base_ready
            /\ UNCHANGED building

NextApp == ScriptRun

SpecApp == Init /\ [][NextApp]_vars

(***************************************************************************)
(* Properties.                                                             *)
(***************************************************************************)
IsBuild(c) == c.op \in {"build_knowledge_base", "build_from_documents"}

IsSearch(c) == c.op \in {"search", "manager_search"}

\* C1: build_knowledge_base with an empty document sequence fails with the
\* empty-corpus error and leaves documents, vocab, idf, doc_vectors and
\* is_trained as they were, on an untrained and on a trained index.
C1_EmptyBuildFailsAndKeepsState ==
    [][(call = Idle /\ call'.op = "build_knowledge_base" /\ call'.docs = <<>>)
        => (error' = EmptyCorpusError /\ UNCHANGED retriever)]_vars

\* an empty build was refused on an index trained on an earlier corpus
C1_Witness ==
    /\ call.op = "build_knowledge_base"
    /\ call.docs = <<>>
    /\ error = EmptyCorpusError
    /\ is_trained
    /\ documents = built
    /\ Len(doc_vectors) = Len(built)

\* C2: build_from_documents with an empty document sequence fails with the
\* empty-corpus error.
C2_ManagerEmptyBuildFails ==
    (call.op = "build_from_documents" /\ call.docs = <<>>)
        => error = EmptyCorpusError

\* C3: as long as no build has succeeded, every search, on the retriever and
\* on the manager, fails with the not-ready error and returns no results.
C3_SearchBeforeBuildNotReady ==
    (IsSearch(call) /\ built = <<>>)
        => (error \in {NotTrainedError, NotReadyError} /\ results = <<>>)

\* a search was refused after a build that failed part-way
C3_Witness ==
    /\ IsSearch(call)
    /\ built = <<>>
    /\ documents # <<>>
    /\ error \in {NotTrainedError, NotReadyError}

\* C4: get_statistics always succeeds and, on an untrained index, reports
\* document_count = 0 and vocabulary_size = 0 with a not-ready indication.
C4_StatsUntrainedReportsZero ==
    call.op = "get_statistics"
        => /\ error = NoError
           /\ ~is_trained =>
                /\ stats.status = "not_ready"
                /\ "document_count" \in DOMAIN stats
                /\ "vocabulary_size" \in DOMAIN stats
                /\ stats.document_count = 0
                /\ stats.vocabulary_size = 0

\* C5: once a build has succeeded, get_statistics reports ready, the number
\* of documents of the most recent successful build and the size of the
\* vocabulary of that corpus, whatever builds failed since.
C5_StatsReportLastSuccessfulBuild ==
    (call.op = "get_statistics" /\ built # <<>>)
        => /\ stats.status = "ready"
           /\ stats.document_count = Len(built)
           /\ stats.vocabulary_size = Cardinality(build_vocabulary(built))

\* C6: a build that fails, for whatever reason, leaves documents, vocab, idf
\* and doc_vectors unchanged.
C6_FailedBuildChangesNothing ==
    [][(call = Idle /\ IsBuild(call') /\ error' # NoError)
        => UNCHANGED <<documents, vocab, idf, doc_vectors>>]_vars

\* number of occurrences of the token "conductivity" in a document
Conductivity(doc) == Count(preprocess_text(doc.content), w_conductivity)

\* C7: on a corpus of three documents with "conductivity" five times in A,
\* once in B and never in C, search("conductivity") at the default min_score
\* returns A above B and does not return C.
C7_ThreeDocumentRanking ==
    (/\ call.op = "search"
     /\ call.query = <<w_conductivity>>
     /\ call.min_score = DefaultMinScore
     /\ call.top_k >= 2
     /\ documents = built
     /\ Len(built) = 3)
        => \A a, b, c \in 1..3 :
            (/\ Conductivity(built[a]) = 5
             /\ Conductivity(built[b]) = 1
             /\ Conductivity(built[c]) = 0)
                => /\ error = NoError
                   /\ \E i, j \in 1..Len(results) :
                        /\ i < j
                        /\ results[i].metadata = a
                        /\ results[j].metadata = b
                   /\ \A i \in 1..Len(results) : results[i].metadata # c

\* C8: every similarity returned by search lies in [0, 1].
C8_SimilarityInUnitInterval ==
    IsSearch(call)
        => \A i \in 1..Len(results) :
            /\ FGeq(results[i].similarity, Zero)
            /\ FGeq(One, results[i].similarity)

\* C9: results are ordered by similarity, largest first, and results of
\* equal similarity are in corpus order.
C9_ResultsSortedStably ==
    IsSearch(call)
        => \A i \in 1..(Len(results) - 1) :
            /\ FGeq(results[i].similarity, results[i + 1].similarity)
            /\ results[i].similarity = results[i + 1].similarity
                => results[i].metadata < results[i + 1].metadata

\* two documents of different corpus positions tie on a non-zero similarity
C9_Witness ==
    /\ IsSearch(call)
    /\ Len(results) = 2
    /\ results[1].similarity = results[2].similarity
    /\ results[1].similarity # Zero
    /\ results[1].metadata < results[2].metadata
    /\ results[1].content # results[2].content

\* the similarity search computes for the stored vector at position i
SimilarityAt(query, i) ==
    cosine_similarity(
        tfidf_vector(compute_tf(preprocess_text(query), vocab), idf),
        doc_vectors[i])

\* C10: no result has a similarity below min_score, and a document whose
\* similarity is min_score or more is not discarded: when fewer than top_k
\* results come back, every such document is among them (all documents, when
\* min_score <= 0).
C10_ThresholdIsInclusive ==
    (IsSearch(call) /\ error = NoError /\ is_trained)
        => /\ \A i \in 1..Len(results) :
                ~FLess(results[i].similarity, call.min_score)
           /\ Len(results) < call.top_k
                => /\ \A d \in 1..Len(doc_vectors) :
                        ~FLess(SimilarityAt(call.query, d), call.min_score)
                            => \E i \in 1..Len(results) : results[i].metadata = d
                   /\ ~FLess(Zero, call.min_score)
                        => Len(results) = Len(doc_vectors)

\* a document whose similarity equals min_score was returned
C10_Witness ==
    /\ IsSearch(call)
    /\ error = NoError
    /\ \E i \in 1..Len(results) :
        /\ results[i].similarity = call.min_score
        /\ SimilarityAt(call.query, results[i].metadata) = call.min_score

\* the positions of the stored vectors whose similarity to the query is
\* min_score or more
Qualifying(query, min_score) ==
    {d \in 1..Len(doc_vectors) : ~FLess(SimilarityAt(query, d), min_score)}

Tokens(docs) == UNION {ToSet(preprocess_text(docs[i].content)) : i \in 1..Len(docs)}

\* C12: the vocabulary, IDF table and document vectors are always those of a
\* fresh index built once with the corpus of the last successful build, and
\* right after a successful build so are the documents; no token, IDF key or
\* vector of an earlier corpus is left.
C12_StateIsThatOfAFreshBuild ==
    /\ built # <<>> =>
        LET fresh_vocab == build_vocabulary(built)
            fresh_idf   == compute_idf(built, fresh_vocab)
        IN  /\ vocab = fresh_vocab
            /\ idf = fresh_idf
            /\ doc_vectors = build_tfidf_vectors(built, fresh_vocab, fresh_idf)
            /\ DOMAIN idf \subseteq Tokens(built)
            /\ Len(doc_vectors) = Len(built)
    /\ (IsBuild(call) /\ error = NoError /\ call.docs # <<>>)
        => (documents = call.docs /\ built = call.docs)

\* a successful build on an index whose vocabulary had tokens that the new
\* corpus lacks
C12_Witness ==
    /\ IsBuild(call)
    /\ error = NoError
    /\ call.docs # <<>>
    /\ call.vocab_before \ vocab # {}
    /\ vocab \ call.vocab_before # {}

C14_SelfSimilarityIsTheMaximum ==
    (call.op = "search" /\ built = ProbeCorpus /\ documents = built)
        => /\ (call.query = text_probe /\ FGeq(One, call.min_score))
                => /\ error = NoError
                   /\ Len(results) = 1
                   /\ results[1].similarity = One
           /\ \A i \in 1..Len(results) : FGeq(One, results[i].similarity)

\* C15: every search, on the retriever or on the manager, whether it
\* returns results or fails, leaves documents, vocab, idf, doc_vectors and
\* is_trained unchanged, so a later search sees the state an earlier one saw.
C15_SearchIsReadOnly ==
    [][(call = Idle /\ IsSearch(call')) => UNCHANGED retriever]_vars

\* a search returned a result for a query with a word the vocabulary lacks
C15_Witness ==
    /\ IsSearch(call)
    /\ error = NoError
    /\ results # <<>>
    /\ ToSet(preprocess_text(call.query)) \ vocab # {}
    /\ vocab = build_vocabulary(built)

\* C16: the only failures are the empty-corpus error and the not-ready
\* error: a build with a non-empty sequence never fails, and after a
\* successful build no search fails.
C16_OnlyTwoFailures ==
    /\ error \in {NoError, EmptyCorpusError, NotTrainedError, NotReadyError}
    /\ (IsBuild(call) /\ call.docs # <<>>) => error = NoError
    /\ (call.op = "search" /\ built # <<>>) => error = NoError
    /\ (call.op = "manager_search" /\ is_ready) => error = NoError

\* C17: every result carries the content and the metadata of one document
\* of the corpus of the last successful build together with the similarity
\* of the query to that document's stored vector, and no document is
\* returned twice.
C17_ResultsAreDocumentsOfTheBuiltCorpus ==
    IsSearch(call)
        => /\ \A i \in 1..Len(results) :
                \E d \in 1..Len(built) :
                    /\ results[i].content = built[d].content
                    /\ results[i].metadata = built[d].metadata
                    /\ results[i].similarity = SimilarityAt(call.query, d)
           /\ \A i, j \in 1..Len(results) :
                i # j => results[i].metadata # results[j].metadata

\* C18: what the caller does to the sequence it passed to a successful
\* build (appending, removing or replacing documents) does not change the
\* documents of the index, which stay one-to-one with its document vectors.
C18_CallerChangesDoNotReachTheIndex ==
    [][(call = Idle /\ call'.op = "caller_changes_list")
        => /\ UNCHANGED documents
           /\ Len(documents') = Len(doc_vectors')]_vars

\* C19: every weight of the IDF table is non-negative, also that of a term
\* that occurs in all the documents.
C19_IdfIsNonNegative ==
    \A word \in DOMAIN idf : FGeq(idf[word], Zero)

\* C20: every stored document vector has entries only for terms that are in
\* the document's term-frequency map and in the IDF table, and none of its
\* entries has the weight 0.
C20_VectorsAreSparse ==
    built # <<>>
        => \A i \in 1..Len(doc_vectors) :
            \A word \in DOMAIN doc_vectors[i] :
                /\ word \in DOMAIN compute_tf(preprocess_text(built[i].content), vocab)
                /\ word \in DOMAIN idf
                /\ doc_vectors[i][word] # Zero

\* the corpora a search may belong to: that of the last build that
\* returned and that of the build being executed
OldOrNew == {built} \cup (IF building = NoBuild THEN {} ELSE {building.docs})

\* C21: a search that runs while a rebuild is in progress reads documents,
\* vocab, idf and doc_vectors that all belong to one corpus, the old one or
\* the new one, never a mixture.
C21_SearchSeesOneCorpus ==
    (call.op = "search" /\ error # NotTrainedError)
        => \E docs \in OldOrNew :
            /\ documents = docs
            /\ vocab = build_vocabulary(docs)
            /\ idf = compute_idf(docs, vocab)
            /\ doc_vectors = build_tfidf_vectors(docs, vocab, idf)

\* the number of documents of a corpus that contain the word
DocumentFrequency(docs, word) ==
    Cardinality({i \in 1..Len(docs) :
                    word \in ToSet(preprocess_text(docs[i].content))})

\* C22: the keys of the IDF table are exactly the tokens of the documents of
\* the built corpus, each weighted by log(N / (1 + df)) with df the number
\* of documents (not occurrences) that contain it, 1 <= df <= N; every key
\* is in the vocabulary, and a domain term that no document contains is in
\* the vocabulary without an IDF key.
C22_IdfKeysAreCorpusTokens ==
    built # <<>>
        => /\ DOMAIN idf = Tokens(built)
           /\ DOMAIN idf \subseteq vocab
           /\ \A word \in DOMAIN idf :
                /\ DocumentFrequency(built, word) \in 1..Len(built)
                /\ idf[word] =
                        Log(FDiv(FromInt(Len(built)),
                                 FromInt(1 + DocumentFrequency(built, word))))
           /\ \A j \in 1..Len(domain_terms) :
                LowerWord(domain_terms[j]) \notin Tokens(built)
                    => /\ LowerWord(domain_terms[j]) \in vocab
                       /\ LowerWord(domain_terms[j]) \notin DOMAIN idf

\* a built corpus with a token that one document repeats, a domain term it
\* contains and a domain term it lacks
C22_Witness ==
    /\ IsBuild(call)
    /\ error = NoError
    /\ Len(built) >= 2
    /\ \E i \in 1..Len(built) : Conductivity(built[i]) > 1
    /\ w_conductivity \in DOMAIN idf
    /\ LowerWord(w_EC) \in vocab \ DOMAIN idf

\* C23: in every state in which is_trained is true, doc_vectors has one
\* entry per document and doc_vectors[i] is the TF-IDF vector of
\* documents[i].
C23_VectorsAlignedWithDocuments ==
    is_trained
        => /\ Len(doc_vectors) = Len(documents)
           /\ \A i \in 1..Len(documents) :
                /\ HasContent(documents[i])
                /\ doc_vectors[i] =
                        tfidf_vector(
                            compute_tf(preprocess_text(documents[i].content),
                                       vocab),
                            idf)

\* the lower-cased domain-priority terms
LoweredDomainTerms == {LowerWord(domain_terms[j]) : j \in 1..Len(domain_terms)}

\* C24: the vocabulary is the union of the tokens of the documents of the
\* built corpus and the lower-cased domain terms, whatever it was before the
\* build; so every domain term is in it, also when no document has one.
C24_VocabIsTokensAndDomainTerms ==
    built # <<>>
        => /\ vocab = Tokens(built) \cup LoweredDomainTerms
           /\ LoweredDomainTerms \subseteq vocab

\* a corpus without any domain term replaced one that had other tokens
C24_Witness ==
    /\ IsBuild(call)
    /\ error = NoError
    /\ call.docs # <<>>
    /\ Tokens(built) \cap LoweredDomainTerms = {}
    /\ LowerWord(w_EC) \in vocab
    /\ w_EC \notin vocab
    /\ call.vocab_before \ vocab # {}

\* the vector search builds for a query
QueryVector(query) ==
    tfidf_vector(compute_tf(preprocess_text(query), vocab), idf)

\* a vector that is empty or has only weights 0
AllZero(vec) == \A word \in DOMAIN vec : vec[word] = Zero

\* C25: for the query vector and every stored vector of a search,
\* cosine_similarity is 0 when one of the two is empty or all zero, and the
\* dot product divided by the product of the two norms otherwise.
C25_CosineIsGuardedQuotient ==
    (IsSearch(call) /\ error \notin {NotTrainedError, NotReadyError})
        => \A d \in 1..Len(doc_vectors) :
            LET q   == QueryVector(call.query)
                v   == doc_vectors[d]
                acc == SumLoop(DOMAIN q \cup DOMAIN v, q, v, <<Zero, Zero, Zero>>)
            IN  IF AllZero(q) \/ AllZero(v)
                THEN cosine_similarity(q, v) = Zero
                ELSE cosine_similarity(q, v) =
                        FDiv(acc[1], FMul(FSqrt(acc[2]), FSqrt(acc[3])))

\* one search met a stored vector with entries that are all 0 and another
\* stored vector that gave a similarity other than 0
C25_Witness ==
    /\ IsSearch(call)
    /\ error = NoError
    /\ ~AllZero(QueryVector(call.query))
    /\ \E d \in 1..Len(doc_vectors) :
        DOMAIN doc_vectors[d] # {} /\ AllZero(doc_vectors[d])
    /\ \E i \in 1..Len(results) : results[i].similarity # Zero

RECURSIVE SumValues(_, _, _)
\* sum(tf.values()): the values of the mapping added in the order in which
\* its keys were inserted, that of the first occurrences in words
SumValues(tf, words, i) ==
    IF i = 0 THEN Zero
    ELSE IF words[i] \in DOMAIN tf /\ \A j \in 1..(i - 1) : words[j] # words[i]
         THEN FAdd(SumValues(tf, words, i - 1), tf[words[i]])
         ELSE SumValues(tf, words, i - 1)

\* the term-frequency map search computes for the query of the call
QueryTf == compute_tf(preprocess_text(call.query), vocab)

\* what compute_tf returns for the query: a key for every vocabulary token
\* and no other, valued occurrences / number of tokens, and the empty
\* mapping for no tokens
TfIsCountOverLength ==
    LET words == preprocess_text(call.query)
    IN  /\ DOMAIN QueryTf = ToSet(words) \cap vocab
        /\ \A word \in DOMAIN QueryTf :
                QueryTf[word] = FDiv(FromInt(Count(words, word)),
                                     FromInt(Len(words)))
        /\ words = <<>> => QueryTf = <<>>

\* C26 as claimed: compute_tf is occurrences / number of tokens on the
\* vocabulary tokens, and its values sum to at most 1, to exactly 1 when
\* every token is in the vocabulary.
C26_TfValuesSumToOne ==
    (IsSearch(call) /\ error \notin {NotTrainedError, NotReadyError})
        => LET words == preprocess_text(call.query)
           IN  /\ TfIsCountOverLength
               /\ FGeq(One, SumValues(QueryTf, words, Len(words)))
               /\ (words # <<>> /\ ToSet(words) \subseteq vocab)
                    => SumValues(QueryTf, words, Len(words)) = One

\* C26 as amended: compute_tf is occurrences / number of tokens on the
\* vocabulary tokens and the empty mapping for no tokens; every value is
\* above 0 and at most 1, and the occurrences of the keys add up to at most
\* the number of tokens, to exactly that number when every token is in the
\* vocabulary.
C26_TfIsRelativeFrequency ==
    (IsSearch(call) /\ error \notin {NotTrainedError, NotReadyError})
        => LET words == preprocess_text(call.query)
               known == {i \in 1..Len(words) : words[i] \in DOMAIN QueryTf}
           IN  /\ TfIsCountOverLength
               /\ \A word \in DOMAIN QueryTf :
                    FLess(Zero, QueryTf[word]) /\ FGeq(One, QueryTf[word])
               /\ Cardinality(known) <= Len(words)
               /\ ToSet(words) \subseteq vocab <=> Cardinality(known) = Len(words)

\* a query of several vocabulary tokens, and no others, whose values do not
\* add up to 1
C26_Witness ==
    /\ IsSearch(call)
    /\ error = NoError
    /\ LET words == preprocess_text(call.query)
       IN  /\ words # <<>>
           /\ ToSet(words) \subseteq vocab
           /\ Cardinality(DOMAIN QueryTf) > 1
           /\ SumValues(QueryTf, words, Len(words)) # One

\* the tokens of the query that occur in a document of the built corpus
KnownTokens(query) == ToSet(preprocess_text(query)) \cap Tokens(built)

\* C27: a term that occurs in exactly N - 1 of the N documents of the built
\* corpus has IDF weight 0, and a search whose query has corpus tokens, all
\* of them such terms, has similarity 0 against every stored vector and
\* returns no result when min_score > 0.
C27_TermInAllButOneDocumentWeighsNothing ==
    built # <<>>
        => /\ \A word \in DOMAIN idf :
                DocumentFrequency(built, word) = Len(built) - 1
                    => idf[word] = Zero
           /\ (/\ IsSearch(call)
               /\ error \notin {NotTrainedError, NotReadyError}
               /\ KnownTokens(call.query) # {}
               /\ \A word \in KnownTokens(call.query) :
                    DocumentFrequency(built, word) = Len(built) - 1)
                => /\ \A d \in 1..Len(doc_vectors) :
                        SimilarityAt(call.query, d) = Zero
                   /\ FLess(Zero, call.min_score)
                        => (error = NoError /\ results = <<>>)

\* "conductivity" is in two of three documents and a search for it at a
\* positive min_score found nothing
C27_Witness ==
    /\ IsSearch(call)
    /\ error = NoError
    /\ call.query = <<w_conductivity>>
    /\ FLess(Zero, call.min_score)
    /\ Len(built) = 3
    /\ documents = built
    /\ DocumentFrequency(built, w_conductivity) = 2
    /\ results = <<>>

\* C28: in every state reached through the manager's operations alone,
\* builds that are empty or that fail included, is_ready is true exactly
\* when the retriever's is_trained is true.
C28_ReadyIffTrained ==
    is_ready <=> is_trained

\* a build through the manager failed on a retriever that was never trained
C28_Witness ==
    /\ call.op = "build_from_documents"
    /\ call.docs # <<>>
    /\ error = KeyError
    /\ documents = call.docs
    /\ ~is_trained
    /\ ~is_ready

\* C29: on a ready manager, search(query, top_k) of the manager returns the
\* list, or raises the exception, of the retriever's search for the same
\* query and top_k with min_score 0.1, so no result it returns has a
\* similarity below 0.1.
C29_ManagerSearchIsRetrieverSearchAtDefault ==
    (call.op = "manager_search" /\ error # NotReadyError)
        => LET top == Slice(sort_reverse(similarities(call.query, DefaultMinScore)),
                            call.top_k)
           IN  /\ error = (IF is_trained THEN loop_error(top) ELSE NotTrainedError)
               /\ error = NoError
                    => results = [j \in 1..Len(top) |-> result_of(top[j])]
               /\ \A i \in 1..Len(results) :
                    FGeq(results[i].similarity, DefaultMinScore)

\* the manager returned a document and left out one that scored below 0.1
C29_Witness ==
    /\ call.op = "manager_search"
    /\ error = NoError
    /\ results # <<>>
    /\ Len(results) < call.top_k
    /\ \E d \in 1..Len(doc_vectors) :
        FLess(SimilarityAt(call.query, d), DefaultMinScore)

====
